---- MODULE Spec2Model ----
(***************************************************************************)
(* A model of three layout rules of eslint-stylistic and of the            *)
(* no-extra-parens wrapper:                                                *)
(*   generator-star-spacing and arrow-spacing  (src/unnamed/part_000)      *)
(*   no-extra-parens and jsx-newline                                        *)
(*     (src/packages/eslint-plugin-ts/rules/no-extra-parens/               *)
(*      no-extra-parens.ts)                                                *)
(*                                                                         *)
(* Source text is a sequence of one-character strings.  Offsets are        *)
(* 0-based as in the host: a token's range is <<start, end>>, so the       *)
(* source's range[0] is range[1] here and the source's range[1] is         *)
(* range[2].                                                               *)
(***************************************************************************)
EXTENDS Integers, Sequences, FiniteSets, TLC

VARIABLES
    ruleName,   \* the rule this linter instance runs
    options,    \* context.options[0]
    pc,         \* "new" before create(context), "created" after it
    modes,      \* generator-star-spacing: the resolved per-bucket policies
    rule,       \* arrow-spacing: the merged { before, after }
    text,       \* the source text being linted
    nodes,      \* the AST nodes the traversal hands to the rule, in order
    cursor,     \* index of the next node of `nodes` to visit
    pass,       \* 1 for the first lint pass, 2 for the pass after the fixes
    calls,      \* the side evaluations made during this pass
    reports,    \* context.report() calls of this pass, in order
    applied,    \* the reports whose fixes were applied between the passes
    jsxElementParents,  \* jsx-newline: the parents collected, in order
    rules,      \* no-extra-parens: the keys of the host rule's listener map
    listeners,  \* no-extra-parens: the listener map create(context) returned
    hostCalls,  \* no-extra-parens: the calls made to host callbacks, in order
    crashed     \* no-extra-parens: a listener called a callback that is absent

lintVars == <<ruleName, options, pc, modes, rule, text, nodes, cursor, pass,
              calls, reports, applied, jsxElementParents>>

lintVars_but_pc == <<ruleName, options, modes, rule, text, nodes, cursor, pass,
                     calls, reports, applied, jsxElementParents>>

parensVars == <<rules, listeners, hostCalls, crashed>>

vars == <<lintVars, parensVars>>

(***************************************************************************)
(* Bounds of the model.                                                    *)
(***************************************************************************)
\* the widest run of blanks between two tokens of an input
MaxGap == 2

\* the longest JSX text between two JSX children of an input
MaxTextLen == 3

(***************************************************************************)
(* Values standing for JavaScript values of several types.                 *)
(***************************************************************************)
Undefined == [t |-> "undefined"]
Str(s) == [t |-> "string", s |-> s]
Obj(o) == [t |-> "object", o |-> o]

\* the record with no field: {}
EmptyObject == [k \in {} |-> TRUE]

\* obj.key, Undefined when the value has no such property
Prop(v, key) ==
    IF v.t = "object" /\ key \in DOMAIN v.o THEN v.o[key] ELSE Undefined

\* Object.assign({}, a, b) on plain objects (records)
ObjectAssign(a, b) ==
    [k \in (DOMAIN a) \cup (DOMAIN b) |-> IF k \in DOMAIN b THEN b[k] ELSE a[k]]

RECURSIVE Spaces(_)
Spaces(n) == IF n = 0 THEN <<>> ELSE <<" ">> \o Spaces(n - 1)

(***************************************************************************)
(* The token stream: sourceCode's tokens of a text.                        *)
(***************************************************************************)
TokenType(ch) ==
    IF ch \in {"*", "(", ")", "{", "[", "]", ":", "=", "=>", ";"} THEN "Punctuator"
    ELSE IF ch = "f" THEN "Keyword"
    ELSE "Identifier"

\* the tokens of txt from 1-based position i on; blanks separate tokens,
\* "=" directly followed by ">" is the arrow token, every other character
\* is a token of its own ("f" the function keyword, "s" static, "a" async,
\* "n" a name)
RECURSIVE TokenizeFrom(_, _)
TokenizeFrom(txt, i) ==
    IF i > Len(txt) THEN <<>>
    ELSE IF txt[i] = " " THEN TokenizeFrom(txt, i + 1)
    ELSE IF txt[i] = "=" /\ i < Len(txt) /\ txt[i + 1] = ">"
        THEN <<[value |-> "=>", type |-> "Punctuator", range |-> <<i - 1, i + 1>>]>>
             \o TokenizeFrom(txt, i + 2)
    ELSE <<[value |-> txt[i], type |-> TokenType(txt[i]), range |-> <<i - 1, i>>]>>
         \o TokenizeFrom(txt, i + 1)

Tokens(txt) == TokenizeFrom(txt, 1)

isStarToken(token) == token.value = "*" /\ token.type = "Punctuator"

isArrowToken(token) == token.value = "=>" /\ token.type = "Punctuator"

\* indices (into the token list) of the tokens of a node, which covers the
\* tokens first..last
TokenIndicesOf(n) == n.first .. n.last

\* sourceCode.getFirstToken(node, isStarToken): index of the first star
\* token of the node, 0 when it has none
FirstStarIndex(toks, n) ==
    LET S == {i \in TokenIndicesOf(n) : i <= Len(toks) /\ isStarToken(toks[i])}
    IN IF S = {} THEN 0 ELSE CHOOSE i \in S : \A j \in S : i <= j

\* sourceCode.getTokenBefore(node.body, isArrowToken): index of the last
\* arrow token before token index b, 0 when there is none
LastArrowIndexBefore(toks, b) ==
    LET S == {i \in 1 .. (b - 1) : i <= Len(toks) /\ isArrowToken(toks[i])}
    IN IF S = {} THEN 0 ELSE CHOOSE i \in S : \A j \in S : i >= j

(***************************************************************************)
(* The fixer: a fix is a range of the text and the text replacing it.      *)
(***************************************************************************)
insertTextAfter(token, str) == [range |-> <<token.range[2], token.range[2]>>, text |-> str]

insertTextBefore(token, str) == [range |-> <<token.range[1], token.range[1]>>, text |-> str]

removeRange(r) == [range |-> r, text |-> <<>>]

\* the text with one fix applied
ApplyFix(txt, fix) ==
    SubSeq(txt, 1, fix.range[1]) \o fix.text \o SubSeq(txt, fix.range[2] + 1, Len(txt))

(***************************************************************************)
(* generator-star-spacing: create(context).                                *)
(***************************************************************************)
\* a plausible slip: the sides of "before" and "after" are exchanged
optionDefinitionsSwapped ==
    [before  |-> [before |-> FALSE, after |-> TRUE],
     after   |-> [before |-> TRUE,  after |-> FALSE],
     both    |-> [before |-> TRUE,  after |-> TRUE],
     neither |-> [before |-> FALSE, after |-> FALSE]]

optionDefinitions ==
    [before  |-> [before |-> TRUE,  after |-> FALSE],
     after   |-> [before |-> FALSE, after |-> TRUE],
     both    |-> [before |-> TRUE,  after |-> TRUE],
     neither |-> [before |-> FALSE, after |-> FALSE]]

optionToDefinition(option, defaults) ==
    IF option.t = "undefined" THEN defaults
    ELSE IF option.t = "string" THEN optionDefinitions[option.s]
    ELSE ObjectAssign(defaults, option.o)

\* a plausible slip: the buckets fall back to the built-in default, not to
\* the default the top-level option has overridden
modesOfBuiltinFallback(option0) ==
    LET option == IF option0.t = "undefined" THEN Obj(EmptyObject) ELSE option0
    IN [named     |-> optionToDefinition(Prop(option, "named"), optionDefinitions.before),
        anonymous |-> optionToDefinition(Prop(option, "anonymous"), optionDefinitions.before),
        method    |-> optionToDefinition(Prop(option, "method"), optionDefinitions.before)]

\* const modes = (function (option) {...}(context.options[0] || {}))
modesOf(option0) ==
    LET option == IF option0.t = "undefined" THEN Obj(EmptyObject) ELSE option0
        defaults == optionToDefinition(option, optionDefinitions.before)
    IN [named     |-> optionToDefinition(Prop(option, "named"), defaults),
        anonymous |-> optionToDefinition(Prop(option, "anonymous"), defaults),
        method    |-> optionToDefinition(Prop(option, "method"), defaults)]

(***************************************************************************)
(* generator-star-spacing: the visitor.                                    *)
(***************************************************************************)
\* index of the generator star of a function node
getStarToken(toks, node) ==
    FirstStarIndex(toks,
        IF node.parent.method \/ node.parent.type = "MethodDefinition"
            THEN node.parent ELSE node)

capitalize(str) == IF str = "before" THEN "Before" ELSE "After"

\* a plausible slip: the policy of the other side is consulted
checkSpacingOtherSide(kind, side, leftToken, rightToken) ==
    LET other == IF side = "before" THEN "after" ELSE "before"
    IN IF ((rightToken.range[1] - leftToken.range[2]) # 0) # modes[kind][other]
       THEN <<[node |-> rightToken, messageId |-> "missing" \o capitalize(side),
               fix |-> removeRange(<<leftToken.range[2], rightToken.range[1]>>)]>>
       ELSE <<>>

\* a plausible slip: a removal deletes one blank, not the whole run
checkSpacingRemoveOne(kind, side, leftToken, rightToken) ==
    IF ((rightToken.range[1] - leftToken.range[2]) # 0) # modes[kind][side]
    THEN LET after == leftToken.value = "*"
             spaceRequired == modes[kind][side]
             node == IF after THEN leftToken ELSE rightToken
         IN <<[node |-> node,
               messageId |-> (IF spaceRequired THEN "missing" ELSE "unexpected")
                             \o capitalize(side),
               fix |-> IF spaceRequired
                       THEN IF after THEN insertTextAfter(node, <<" ">>)
                            ELSE insertTextBefore(node, <<" ">>)
                       ELSE removeRange(<<leftToken.range[2], leftToken.range[2] + 1>>)]>>
    ELSE <<>>

\* a plausible slip: the report is always put on the right-hand token
checkSpacingNodeRight(kind, side, leftToken, rightToken) ==
    IF ((rightToken.range[1] - leftToken.range[2]) # 0) # modes[kind][side]
    THEN LET spaceRequired == modes[kind][side]
         IN <<[node |-> rightToken,
               messageId |-> (IF spaceRequired THEN "missing" ELSE "unexpected")
                             \o capitalize(side),
               fix |-> IF spaceRequired
                       THEN IF side = "after" THEN insertTextAfter(leftToken, <<" ">>)
                            ELSE insertTextBefore(rightToken, <<" ">>)
                       ELSE removeRange(<<leftToken.range[2], rightToken.range[1]>>)]>>
    ELSE <<>>

\* a plausible slip: a removal runs to the end of the right-hand token
checkSpacingRemoveThroughRight(kind, side, leftToken, rightToken) ==
    IF ((rightToken.range[1] - leftToken.range[2]) # 0) # modes[kind][side]
    THEN LET after == leftToken.value = "*"
             spaceRequired == modes[kind][side]
             node == IF after THEN leftToken ELSE rightToken
         IN <<[node |-> node,
               messageId |-> (IF spaceRequired THEN "missing" ELSE "unexpected")
                             \o capitalize(side),
               fix |-> IF spaceRequired
                       THEN IF after THEN insertTextAfter(node, <<" ">>)
                            ELSE insertTextBefore(node, <<" ">>)
                       ELSE removeRange(<<leftToken.range[2], rightToken.range[2]>>)]>>
    ELSE <<>>

\* the reports (none or one) of one evaluation of a side
checkSpacing(kind, side, leftToken, rightToken) ==
    IF ((rightToken.range[1] - leftToken.range[2]) # 0) # modes[kind][side]
    THEN LET after == leftToken.value = "*"
             spaceRequired == modes[kind][side]
             node == IF after THEN leftToken ELSE rightToken
             messageId == (IF spaceRequired THEN "missing" ELSE "unexpected")
                          \o capitalize(side)
         IN <<[node |-> node,
               messageId |-> messageId,
               fix |-> IF spaceRequired
                       THEN IF after THEN insertTextAfter(node, <<" ">>)
                            ELSE insertTextBefore(node, <<" ">>)
                       ELSE removeRange(<<leftToken.range[2], rightToken.range[1]>>)]>>
    ELSE <<>>

\* a plausible slip: a method without a name of its own counts as anonymous
kindOfNameFirst(node) ==
    IF ~node.id THEN "anonymous"
    ELSE IF node.parent.type = "MethodDefinition"
       \/ (node.parent.type = "Property" /\ node.parent.method)
        THEN "method"
    ELSE "named"

\* the bucket of a generator function
kindOf(node) ==
    IF node.parent.type = "MethodDefinition"
       \/ (node.parent.type = "Property" /\ node.parent.method)
        THEN "method"
    ELSE IF ~node.id THEN "anonymous"
    ELSE "named"

\* a plausible slip: the before side is evaluated whatever the star follows
checkFunctionAlwaysBefore(toks, node) ==
    IF ~node.generator THEN <<>>
    ELSE LET star == getStarToken(toks, node)
         IN <<[kind |-> kindOf(node), side |-> "before",
               left |-> toks[star - 1], right |-> toks[star]],
              [kind |-> kindOf(node), side |-> "after",
               left |-> toks[star], right |-> toks[star + 1]]>>

\* the checkSpacing calls checkFunction makes for a node, in order
checkFunction(toks, node) ==
    IF ~node.generator THEN <<>>
    ELSE LET star == getStarToken(toks, node)
             starToken == toks[star]
             prevToken == toks[star - 1]
             nextToken == toks[star + 1]
             kind == kindOf(node)
         IN (IF ~(kind = "method" /\ star = node.parent.first)
                THEN <<[kind |-> kind, side |-> "before",
                        left |-> prevToken, right |-> starToken]>>
                ELSE <<>>)
            \o <<[kind |-> kind, side |-> "after",
                  left |-> starToken, right |-> nextToken]>>

(***************************************************************************)
(* arrow-spacing.                                                          *)
(***************************************************************************)
\* rule = Object.assign({}, context.options[0]); rule.before = rule.before
\* !== false; rule.after = rule.after !== false
ruleOf(option0) ==
    LET r == IF option0.t = "object" THEN option0.o ELSE EmptyObject
    IN ObjectAssign(r,
        [before |-> ~("before" \in DOMAIN r /\ r.before = FALSE),
         after  |-> ~("after" \in DOMAIN r /\ r.after = FALSE)])

getTokens(toks, node) ==
    LET arrow == LastArrowIndexBefore(toks, node.body)
    IN [before |-> toks[arrow - 1], arrow |-> toks[arrow], after |-> toks[arrow + 1]]

countSpaces(tokens) ==
    [before |-> tokens.arrow.range[1] - tokens.before.range[2],
     after  |-> tokens.after.range[1] - tokens.arrow.range[2]]

\* the before half of spaces(node)
spacesBefore(tokens) ==
    LET countSpace == countSpaces(tokens)
    IN IF rule.before
       THEN IF countSpace.before = 0
            THEN <<[node |-> tokens.before, messageId |-> "expectedBefore",
                    fix |-> insertTextBefore(tokens.arrow, <<" ">>)]>>
            ELSE <<>>
       ELSE IF countSpace.before > 0
            THEN <<[node |-> tokens.before, messageId |-> "unexpectedBefore",
                    fix |-> removeRange(<<tokens.before.range[2], tokens.arrow.range[1]>>)]>>
            ELSE <<>>

\* the after half of spaces(node)
spacesAfter(tokens) ==
    LET countSpace == countSpaces(tokens)
    IN IF rule.after
       THEN IF countSpace.after = 0
            THEN <<[node |-> tokens.after, messageId |-> "expectedAfter",
                    fix |-> insertTextAfter(tokens.arrow, <<" ">>)]>>
            ELSE <<>>
       ELSE IF countSpace.after > 0
            THEN <<[node |-> tokens.after, messageId |-> "unexpectedAfter",
                    fix |-> removeRange(<<tokens.arrow.range[2], tokens.after.range[1]>>)]>>
            ELSE <<>>

\* the two sides spaces(node) looks at, in order
spaces(toks, node) ==
    LET tokens == getTokens(toks, node)
    IN <<[kind |-> "arrow", side |-> "before",
          left |-> tokens.before, right |-> tokens.arrow],
         [kind |-> "arrow", side |-> "after",
          left |-> tokens.arrow, right |-> tokens.after]>>

(***************************************************************************)
(* jsx-newline.  In the text of a JSX tree "[" and "]" stand for the       *)
(* opening and the closing tag of an element with children, "<" ... ">"    *)
(* for an element without children, "{" ... "}" for an expression          *)
(* container ("/*" in it for a block comment); every other character       *)
(* between them is JSX text.                                               *)
(***************************************************************************)
\* 1-based position of the first ch in txt at or after position i
RECURSIVE FirstAt(_, _, _)
FirstAt(txt, i, ch) ==
    IF i > Len(txt) \/ txt[i] = ch THEN i ELSE FirstAt(txt, i + 1, ch)

\* 1-based position of the "]" closing the element whose children start at i
RECURSIVE CloseOf(_, _, _)
CloseOf(txt, i, depth) ==
    IF i > Len(txt) THEN i
    ELSE IF txt[i] = "]" THEN IF depth = 0 THEN i ELSE CloseOf(txt, i + 1, depth - 1)
    ELSE IF txt[i] = "[" THEN CloseOf(txt, i + 1, depth + 1)
    ELSE CloseOf(txt, i + 1, depth)

\* 1-based position of the last character of the JSX text starting at i
RECURSIVE TextEnd(_, _)
TextEnd(txt, i) ==
    IF i + 1 > Len(txt) \/ txt[i + 1] \in {"[", "]", "<", "{"} THEN i
    ELSE TextEnd(txt, i + 1)

\* the JSX nodes of txt from position i on, in document order; stack holds
\* the start offsets of the elements that are open at i, and a node's parent
\* is the start offset of the innermost one (-1 outside every element)
RECURSIVE JsxNodesFrom(_, _, _)
JsxNodesFrom(txt, i, stack) ==
    IF i > Len(txt) THEN <<>>
    ELSE LET top == IF stack = <<>> THEN -1 ELSE stack[Len(stack)]
         IN CASE txt[i] = "[" ->
                   <<[type |-> "JSXElement", range |-> <<i - 1, CloseOf(txt, i + 1, 0)>>,
                      parent |-> top]>>
                   \o JsxNodesFrom(txt, i + 1, Append(stack, i - 1))
              [] txt[i] = "]" ->
                   JsxNodesFrom(txt, i + 1, SubSeq(stack, 1, Len(stack) - 1))
              [] txt[i] = "<" ->
                   <<[type |-> "JSXElement", range |-> <<i - 1, FirstAt(txt, i, ">")>>,
                      parent |-> top]>>
                   \o JsxNodesFrom(txt, FirstAt(txt, i, ">") + 1, stack)
              [] txt[i] = "{" ->
                   <<[type |-> "JSXExpressionContainer",
                      range |-> <<i - 1, FirstAt(txt, i, "}")>>, parent |-> top]>>
                   \o JsxNodesFrom(txt, FirstAt(txt, i, "}") + 1, stack)
              [] OTHER ->
                   IF stack = <<>> THEN JsxNodesFrom(txt, i + 1, stack)
                   ELSE <<[type |-> "JSXText", range |-> <<i - 1, TextEnd(txt, i)>>,
                           parent |-> top]>>
                        \o JsxNodesFrom(txt, TextEnd(txt, i) + 1, stack)

JsxNodes(txt) == JsxNodesFrom(txt, 1, <<>>)

\* sourceCode.getText(node); for JSX text it is also node.value
getText(txt, node) == SubSeq(txt, node.range[1] + 1, node.range[2])

\* parent.children
ChildrenOf(all, p) == SelectSeq(all, LAMBDA n : n.parent = p)

\* the nodes matched by
\* ':matches(JSXElement, JSXFragment) > :matches(JSXElement, JSXExpressionContainer)'
SelectorMatches(all) ==
    SelectSeq(all, LAMBDA n : n.parent # -1
                              /\ n.type \in {"JSXElement", "JSXExpressionContainer"})

Whitespace == {"\n", " "}

\* /\n\s*\n/.test(str)
HasBlankLine(str) ==
    \E i, j \in 1 .. Len(str) :
        /\ i < j /\ str[i] = "\n" /\ str[j] = "\n"
        /\ \A k \in (i + 1) .. (j - 1) : str[k] \in Whitespace

\* the lookahead .*\n at position p: a newline follows on or after p
LineEndsAfter(str, p) == \E j \in p .. Len(str) : str[j] = "\n"

\* the lookahead .*\n\n at position p: the rest of the line at p is
\* followed by two newlines
BlankLineEndsLineAt(str, p) ==
    \E j \in p .. (Len(str) - 1) :
        /\ str[j] = "\n" /\ str[j + 1] = "\n"
        /\ \A k \in p .. (j - 1) : str[k] # "\n"

\* str.replace(/(\n)(?!.*\1)/g, '\n\n') from position i on
RECURSIVE DoubleLastNewlineFrom(_, _)
DoubleLastNewlineFrom(str, i) ==
    IF i > Len(str) THEN <<>>
    ELSE IF str[i] = "\n" /\ ~LineEndsAfter(str, i + 1)
        THEN <<"\n", "\n">> \o DoubleLastNewlineFrom(str, i + 1)
    ELSE <<str[i]>> \o DoubleLastNewlineFrom(str, i + 1)

\* str.replace(/(\n\n)(?!.*\1)/g, '\n') from position i on
RECURSIVE HalveLastBlankLineFrom(_, _)
HalveLastBlankLineFrom(str, i) ==
    IF i > Len(str) THEN <<>>
    ELSE IF /\ i < Len(str) /\ str[i] = "\n" /\ str[i + 1] = "\n"
            /\ ~BlankLineEndsLineAt(str, i + 2)
        THEN <<"\n">> \o HalveLastBlankLineFrom(str, i + 2)
    ELSE <<str[i]>> \o HalveLastBlankLineFrom(str, i + 1)

\* fixer.replaceText(node, str)
replaceText(node, str) == [range |-> node.range, text |-> str]

\* node && node.loc.start.line !== node.loc.end.line; node is a sequence
\* holding the node, or nothing for undefined
isMultilined(txt, node) ==
    node # <<>> /\ \E k \in 1 .. Len(getText(txt, node[1])) : getText(txt, node[1])[k] = "\n"

\* /^\s*{\/\*/.test(sourceCode.getText(element))
RECURSIVE StartsBlockComment(_, _)
StartsBlockComment(str, i) ==
    IF i + 1 > Len(str) THEN FALSE
    ELSE IF str[i] \in Whitespace THEN StartsBlockComment(str, i + 1)
    ELSE str[i] = "{" /\ str[i + 1] = "/*"

isBlockCommentInCurlyBraces(txt, element) == StartsBlockComment(getText(txt, element), 1)

isNonBlockComment(txt, element) ==
    /\ ~isBlockCommentInCurlyBraces(txt, element)
    /\ element.type \in {"JSXElement", "JSXExpressionContainer"}

\* elements.slice(from - 1).find(isNonBlockComment): a sequence holding the
\* first such element at or after the 1-based index from, or nothing
RECURSIVE FindNonBlockComment(_, _, _)
FindNonBlockComment(txt, elements, from) ==
    IF from > Len(elements) THEN <<>>
    ELSE IF isNonBlockComment(txt, elements[from]) THEN <<elements[from]>>
    ELSE FindNonBlockComment(txt, elements, from + 1)

\* configuration.prevent || false, configuration.allowMultilines || false
JsxFlag(opts, key) == opts.t = "object" /\ key \in DOMAIN opts.o /\ opts.o[key]

\* the body of parent.children.forEach for the child at the 1-based index:
\* the reports (none or one) of that child
CheckChild(txt, opts, elements, index) ==
    LET element == elements[index]
        prevent == JsxFlag(opts, "prevent")
        allowMultilines == JsxFlag(opts, "allowMultilines")
        hasSibling == /\ index + 2 <= Len(elements)
                      /\ elements[index + 1].type \in {"Literal", "JSXText"}
        firstAdjacentSibling == elements[index + 1]
        secondAdjacentSibling == elements[index + 2]
        isWithoutNewLine == ~HasBlankLine(getText(txt, firstAdjacentSibling))
    IN IF ~(element.type \in {"JSXElement", "JSXExpressionContainer"}) THEN <<>>
       ELSE IF ~hasSibling THEN <<>>
       ELSE IF isBlockCommentInCurlyBraces(txt, element) THEN <<>>
       ELSE IF allowMultilines
               /\ (\/ isMultilined(txt, <<element>>)
                   \/ isMultilined(txt, FindNonBlockComment(txt, elements, index + 2)))
            THEN IF ~isWithoutNewLine THEN <<>>
                 ELSE <<[node |-> secondAdjacentSibling, messageId |-> "allowMultilines",
                         fix |-> replaceText(firstAdjacentSibling,
                                   DoubleLastNewlineFrom(getText(txt, firstAdjacentSibling), 1))]>>
       ELSE IF isWithoutNewLine = prevent THEN <<>>
       ELSE <<[node |-> secondAdjacentSibling,
               messageId |-> IF prevent THEN "prevent" ELSE "require",
               fix |-> replaceText(firstAdjacentSibling,
                         IF prevent
                         THEN HalveLastBlankLineFrom(getText(txt, firstAdjacentSibling), 1)
                         ELSE DoubleLastNewlineFrom(getText(txt, firstAdjacentSibling), 1))]>>

(***************************************************************************)
(* no-extra-parens: the listeners laid over those of the host rule.        *)
(* A node is a record of its type and its operands; an operand is a        *)
(* record [type |-> ...], Null for an operand that is absent.              *)
(***************************************************************************)
Null == [type |-> "null"]

Operand(t) == [type |-> t]

isTypeAssertion(node) == node.type \in {"TSAsExpression", "TSTypeAssertion"}

\* { ...operand, type: AST_NODE_TYPES.SequenceExpression }
AsSequence(operand) == [operand EXCEPT !.type = "SequenceExpression"]

\* one call of the host callback registered under key
HostCall(key, arg) == <<[key |-> key, arg |-> arg]>>

isOpeningParenToken(token) == token.value = "(" /\ token.type = "Punctuator"

\* sourceCode.getTokenAfter(node, isOpeningParenToken), node ending with
\* token number last: the index of the token, 0 when there is none
OpeningParenAfter(toks, last) ==
    LET S == {i \in (last + 1) .. Len(toks) : isOpeningParenToken(toks[i])}
    IN IF S = {} THEN 0 ELSE CHOOSE i \in S : \A j \in S : i <= j

\* sourceCode.getTokenBefore(node, isOpeningParenToken), node starting with
\* token number first
OpeningParenBefore(toks, first) ==
    LET S == {i \in 1 .. (first - 1) : isOpeningParenToken(toks[i])}
    IN IF S = {} THEN 0 ELSE CHOOSE i \in S : \A j \in S : i >= j

\* a plausible slip: the case of two type assertions is not set apart
binaryExpLeftFirst(node) ==
    IF isTypeAssertion(node.left)
        THEN HostCall("BinaryExpression", [node EXCEPT !.left = AsSequence(@)])
    ELSE IF isTypeAssertion(node.right)
        THEN HostCall("BinaryExpression", [node EXCEPT !.right = AsSequence(@)])
    ELSE HostCall("BinaryExpression", node)

binaryExp(node) ==
    LET isLeftTypeAssertion == isTypeAssertion(node.left)
        isRightTypeAssertion == isTypeAssertion(node.right)
    IN IF isLeftTypeAssertion /\ isRightTypeAssertion THEN <<>>
       ELSE IF isLeftTypeAssertion
           THEN HostCall("BinaryExpression", [node EXCEPT !.left = AsSequence(@)])
       ELSE IF isRightTypeAssertion
           THEN HostCall("BinaryExpression", [node EXCEPT !.right = AsSequence(@)])
       ELSE HostCall("BinaryExpression", node)

callExp(node) ==
    IF isTypeAssertion(node.callee)
        THEN HostCall("CallExpression", [node EXCEPT !.callee = AsSequence(@)])
    ELSE IF /\ Len(node.arguments) = 1
            /\ OpeningParenAfter(Tokens(node.source), node.calleeLast)
                  # OpeningParenBefore(Tokens(node.source), node.argumentFirst)
        THEN HostCall("CallExpression",
                      [node EXCEPT !.arguments = <<AsSequence(node.arguments[1])>>])
    ELSE HostCall("CallExpression", node)

unaryUpdateExpression(node) ==
    IF isTypeAssertion(node.argument)
        THEN HostCall("UnaryExpression", [node EXCEPT !.argument = AsSequence(@)])
    ELSE HostCall("UnaryExpression", node)

\* the override of ClassDeclaration and of ClassExpression
classOverride(key, node) ==
    IF node.superClass.type = "TSAsExpression"
        THEN HostCall(key, [node EXCEPT !.superClass = AsSequence(@)])
    ELSE HostCall(key, node)

ConditionalExpressionOverride(node) ==
    IF isTypeAssertion(node.test)
        THEN HostCall("ConditionalExpression", [node EXCEPT !.test = AsSequence(@)])
    ELSE IF isTypeAssertion(node.consequent)
        THEN HostCall("ConditionalExpression", [node EXCEPT !.consequent = AsSequence(@)])
    ELSE IF isTypeAssertion(node.alternate)
        THEN HostCall("ConditionalExpression", [node EXCEPT !.alternate = AsSequence(@)])
    ELSE HostCall("ConditionalExpression", node)

ForStatementOverride(node) ==
    IF node.init # Null /\ isTypeAssertion(node.init)
        THEN HostCall("ForStatement", [node EXCEPT !.init = Null])
    ELSE IF node.test # Null /\ isTypeAssertion(node.test)
        THEN HostCall("ForStatement", [node EXCEPT !.test = Null])
    ELSE IF node.update # Null /\ isTypeAssertion(node.update)
        THEN HostCall("ForStatement", [node EXCEPT !.update = Null])
    ELSE HostCall("ForStatement", node)

ForInStatementOverride(node) ==
    IF isTypeAssertion(node.right) THEN <<>>
    ELSE HostCall("ForInStatement", node)

ForOfStatementOverride(node) ==
    IF isTypeAssertion(node.right)
        THEN HostCall("ForOfStatement",
                      [node EXCEPT !.type = "ForOfStatement", !.right = AsSequence(@)])
    ELSE HostCall("ForOfStatement", node)

CombinedForKey == "ForInStatement, ForOfStatement"

ForInitExitKey == "ForStatement > *.init:exit"

\* a plausible slip: the copy keeps the type of the loop
CombinedForOverrideKeepingType(node) ==
    IF isTypeAssertion(node.right)
        THEN HostCall(CombinedForKey, [node EXCEPT !.right = AsSequence(@)])
    ELSE HostCall(CombinedForKey, node)

\* the override of 'ForInStatement, ForOfStatement'
CombinedForOverride(node) ==
    IF isTypeAssertion(node.right)
        THEN HostCall(CombinedForKey,
                      [node EXCEPT !.type = "ForOfStatement", !.right = AsSequence(@)])
    ELSE HostCall(CombinedForKey, node)

\* the overrides that call the host only for an operand that is present and
\* no type assertion: SwitchCase (test), ThrowStatement and YieldExpression
\* (argument)
guardedOverride(key, operand, node) ==
    IF operand # Null /\ ~isTypeAssertion(operand) THEN HostCall(key, node) ELSE <<>>

\* the host calls the override registered under key makes for a node
Override(key, node) ==
    CASE key = "ArrowFunctionExpression" ->
            IF ~isTypeAssertion(node.body) THEN HostCall(key, node) ELSE <<>>
      [] key = "AwaitExpression" ->
            IF isTypeAssertion(node.argument)
                THEN HostCall(key, [node EXCEPT !.argument = AsSequence(@)])
            ELSE HostCall(key, node)
      [] key \in {"BinaryExpression", "LogicalExpression"} -> binaryExp(node)
      [] key \in {"CallExpression", "NewExpression"} -> callExp(node)
      [] key \in {"ClassDeclaration", "ClassExpression"} -> classOverride(key, node)
      [] key = "ConditionalExpression" -> ConditionalExpressionOverride(node)
      [] key = "ForStatement" -> ForStatementOverride(node)
      [] key = ForInitExitKey ->
            IF ~isTypeAssertion(node) THEN HostCall(key, node) ELSE <<>>
      [] key = "MemberExpression" ->
            IF isTypeAssertion(node.object)
                THEN HostCall(key, [node EXCEPT !.object = AsSequence(@)])
            ELSE HostCall(key, node)
      [] key = "SpreadElement" ->
            IF ~isTypeAssertion(node.argument) THEN HostCall(key, node) ELSE <<>>
      [] key = "SwitchCase" -> guardedOverride(key, node.test, node)
      [] key \in {"ThrowStatement", "YieldExpression"} ->
            guardedOverride(key, node.argument, node)
      [] key \in {"UnaryExpression", "UpdateExpression"} -> unaryUpdateExpression(node)
      [] key = "ForInStatement" -> ForInStatementOverride(node)
      [] key = "ForOfStatement" -> ForOfStatementOverride(node)
      [] key = CombinedForKey -> CombinedForOverride(node)

\* the keys of the object literal `overrides`
OverrideLiteralKeys ==
    {"ArrowFunctionExpression", "AwaitExpression", "BinaryExpression",
     "CallExpression", "ClassDeclaration", "ClassExpression",
     "ConditionalExpression", "ForStatement", ForInitExitKey,
     "LogicalExpression", "MemberExpression", "NewExpression", "SpreadElement",
     "SwitchCase", "ThrowStatement", "UnaryExpression", "UpdateExpression",
     "YieldExpression"}

\* the keys of `overrides` when create(context) returns, for a host map
OverrideKeys(hostKeys) ==
    OverrideLiteralKeys
    \cup (IF "ForInStatement" \in hostKeys /\ "ForOfStatement" \in hostKeys
          THEN {"ForInStatement", "ForOfStatement"}
          ELSE {CombinedForKey})

\* Object.assign({}, rules, overrides): which of the two each key comes from
createListeners(hostKeys) ==
    [k \in hostKeys \cup OverrideKeys(hostKeys) |->
        IF k \in OverrideKeys(hostKeys) THEN "override" ELSE "host"]

\* the selectors of the listener map a node matches, in a fixed order
MatchingKeys(node) ==
    SelectSeq(<<node.type, CombinedForKey, ForInitExitKey>>,
              LAMBDA k : \/ k = node.type
                         \/ (k = CombinedForKey
                             /\ node.type \in {"ForInStatement", "ForOfStatement"})
                         \/ (k = ForInitExitKey /\ "initOf" \in DOMAIN node))

\* the host calls the listeners under the keys ks make for a node
RECURSIVE ListenerCalls(_, _, _)
ListenerCalls(map, ks, node) ==
    IF ks = <<>> THEN <<>>
    ELSE (IF Head(ks) \notin DOMAIN map THEN <<>>
          ELSE IF map[Head(ks)] = "host" THEN HostCall(Head(ks), node)
          ELSE Override(Head(ks), node))
         \o ListenerCalls(map, Tail(ks), node)

\* the calls of cs made before the first call of a callback that is absent
RECURSIVE CallsBeforeCrash(_, _)
CallsBeforeCrash(hostKeys, cs) ==
    IF cs = <<>> \/ Head(cs).key \notin hostKeys THEN <<>>
    ELSE <<Head(cs)>> \o CallsBeforeCrash(hostKeys, Tail(cs))

(***************************************************************************)
(* Input programs.  A program is a sequence of constructs; a construct is  *)
(* a shape (its tokens and the node the parser makes of them) and the      *)
(* number of blanks on each side of its delimiter.                         *)
(***************************************************************************)
Shape(pre, delim, post, type, generator, id, nodeFirst, parentType, parentMethod, parentFirst) ==
    [pre |-> pre, delim |-> delim, post |-> post, type |-> type,
     generator |-> generator, id |-> id, nodeFirst |-> nodeFirst,
     parentType |-> parentType, parentMethod |-> parentMethod,
     parentFirst |-> parentFirst]

GeneratorShapes ==
    { \* function*n(      a generator declaration
      Shape(<<"f">>, <<"*">>, <<"n", "(">>, "FunctionDeclaration", TRUE, TRUE, 1,
            "Program", FALSE, 1),
      \* n=function*(     an anonymous generator expression
      Shape(<<"n", "=", "f">>, <<"*">>, <<"(">>, "FunctionExpression", TRUE, FALSE, 3,
            "VariableDeclarator", FALSE, 1),
      \* {*n(             a class generator method, the star its first token
      Shape(<<"{">>, <<"*">>, <<"n", "(">>, "FunctionExpression", TRUE, FALSE, 4,
            "MethodDefinition", FALSE, 2),
      \* {static*n(       a static class generator method
      Shape(<<"{", "s">>, <<"*">>, <<"n", "(">>, "FunctionExpression", TRUE, FALSE, 5,
            "MethodDefinition", FALSE, 2),
      \* {*[n*n](         a class generator method with a computed key
      Shape(<<"{">>, <<"*">>, <<"[", "n", "*", "n", "]", "(">>, "FunctionExpression",
            TRUE, FALSE, 8, "MethodDefinition", FALSE, 2),
      \* {*n(             an object-literal generator method
      Shape(<<"{">>, <<"*">>, <<"n", "(">>, "FunctionExpression", TRUE, FALSE, 4,
            "Property", TRUE, 2),
      \* {async*n(        an object-literal async generator method
      Shape(<<"{", "a">>, <<"*">>, <<"n", "(">>, "FunctionExpression", TRUE, FALSE, 5,
            "Property", TRUE, 2),
      \* {n:function*(    an anonymous generator as a property value
      Shape(<<"{", "n", ":", "f">>, <<"*">>, <<"(">>, "FunctionExpression", TRUE, FALSE, 4,
            "Property", FALSE, 2),
      \* {n:function*n(   a named generator as a property value
      Shape(<<"{", "n", ":", "f">>, <<"*">>, <<"n", "(">>, "FunctionExpression", TRUE, TRUE, 4,
            "Property", FALSE, 2),
      \* {n=function*(    an anonymous generator as a class field value
      Shape(<<"{", "n", "=", "f">>, <<"*">>, <<"(">>, "FunctionExpression", TRUE, FALSE, 4,
            "PropertyDefinition", FALSE, 2),
      \* function n(      a function that is no generator
      Shape(<<"f">>, <<>>, <<"n", "(">>, "FunctionDeclaration", FALSE, TRUE, 1,
            "Program", FALSE, 1),
      \* {n(              a class method that is no generator
      Shape(<<"{">>, <<>>, <<"n", "(">>, "FunctionExpression", FALSE, FALSE, 3,
            "MethodDefinition", FALSE, 2) }

ArrowShapes ==
    { \* (n)=>n
      Shape(<<"(", "n", ")">>, <<"=", ">">>, <<"n">>, "ArrowFunctionExpression",
            FALSE, FALSE, 1, "Program", FALSE, 1),
      \* n=>{
      Shape(<<"n">>, <<"=", ">">>, <<"{">>, "ArrowFunctionExpression",
            FALSE, FALSE, 1, "Program", FALSE, 1) }

Gaps == 0 .. MaxGap

Constructs(shapes) ==
    {[shape |-> sh, gapBefore |-> gb, gapAfter |-> ga] :
        sh \in shapes, gb \in Gaps, ga \in Gaps}

\* the source text of one construct
ItemText(it) ==
    IF it.shape.delim = <<>> THEN it.shape.pre \o it.shape.post
    ELSE it.shape.pre \o Spaces(it.gapBefore) \o it.shape.delim
         \o Spaces(it.gapAfter) \o it.shape.post

\* the source text of a program: its constructs, each closed by ";"
RECURSIVE ProgramText(_)
ProgramText(items) ==
    IF items = <<>> THEN <<>>
    ELSE ItemText(Head(items)) \o <<";">> \o ProgramText(Tail(items))

\* the node the parser makes of a construct whose first token is token
\* number off + 1 of the program
NodeOf(it, off) ==
    LET n == Len(Tokens(ItemText(it)))
    IN [type |-> it.shape.type,
        generator |-> it.shape.generator,
        id |-> it.shape.id,
        first |-> off + it.shape.nodeFirst,
        last |-> off + n,
        body |-> off + n - Len(it.shape.post) + 1,
        parent |-> [type |-> it.shape.parentType,
                    method |-> it.shape.parentMethod,
                    first |-> off + it.shape.parentFirst,
                    last |-> off + n]]

RECURSIVE ProgramNodes(_, _)
ProgramNodes(items, off) ==
    IF items = <<>> THEN <<>>
    ELSE <<NodeOf(Head(items), off)>>
         \o ProgramNodes(Tail(items), off + Len(Tokens(ItemText(Head(items)))) + 1)

(***************************************************************************)
(* Configurations.                                                         *)
(***************************************************************************)
Shorthands == {"before", "after", "both", "neither"}

Buckets == {"named", "anonymous", "method"}

Sides == {"before", "after"}

\* the objects { before?: boolean, after?: boolean }
SideObjects ==
    UNION {[D -> BOOLEAN] : D \in SUBSET Sides}

\* OVERRIDE_SCHEMA: a shorthand or an object of sides
Overrides == {Str(s) : s \in Shorthands} \cup {Obj(o) : o \in SideObjects}

\* an override of a bucket, or Undefined for a bucket that is not configured
MaybeOverrides == {Undefined} \cup Overrides

\* the object configuration { before?, after?, named?, anonymous?, method? }
\* with the sides of so and the overrides that are not Undefined
ObjectOption(so, named, anonymous, method) ==
    LET all == [named |-> named, anonymous |-> anonymous, method |-> method]
        set == {b \in Buckets : all[b] # Undefined}
    IN Obj(ObjectAssign(so, [b \in set |-> all[b]]))

\* the configurations the lint runs are made under: none, the shorthands,
\* and one bucket overridden by a shorthand
GeneratorRunOptions ==
    {Undefined} \cup {Str(s) : s \in Shorthands}
    \cup {Obj([k \in {b} |-> Str(s)]) : b \in Buckets, s \in Shorthands}

\* every configuration the schema of arrow-spacing admits
ArrowOptions == {Undefined} \cup {Obj(o) : o \in SideObjects}

(***************************************************************************)
(* The linter: create(context), one visit per node, and the host applying  *)
(* fixes between two passes.                                               *)
(***************************************************************************)
StarRule == "generator-star-spacing"

ArrowRule == "arrow-spacing"

JsxRule == "jsx-newline"

ParensRule == "no-extra-parens"

\* the state of a linter instance that has not run create(context) yet
Fresh(name, opts, txt, nds) ==
    /\ ruleName = name
    /\ options = opts
    /\ pc = "new"
    /\ modes = Undefined
    /\ rule = Undefined
    /\ text = txt
    /\ nodes = nds
    /\ cursor = 1
    /\ pass = 1
    /\ calls = <<>>
    /\ reports = <<>>
    /\ applied = {}
    /\ jsxElementParents = <<>>
    /\ rules = {}
    /\ listeners = EmptyObject
    /\ hostCalls = <<>>
    /\ crashed = FALSE

\* a linter instance for a program of constructs
FreshProgram(name, opts, items) ==
    Fresh(name, opts, ProgramText(items), ProgramNodes(items, 0))

\* a linter instance of jsx-newline for the text of a JSX tree
FreshJsx(opts, txt) ==
    Fresh(JsxRule, opts, txt, SelectorMatches(JsxNodes(txt)))

\* create(context) of generator-star-spacing
CreateGeneratorStarSpacing ==
    /\ pc = "new"
    /\ ruleName = StarRule
    /\ modes' = modesOf(options)
    /\ pc' = "created"
    /\ UNCHANGED <<parensVars, ruleName, options, rule, text, nodes, cursor, pass, calls,
                   reports, applied, jsxElementParents>>

\* create(context) of arrow-spacing
CreateArrowSpacing ==
    /\ pc = "new"
    /\ ruleName = ArrowRule
    /\ rule' = ruleOf(options)
    /\ pc' = "created"
    /\ UNCHANGED <<parensVars, ruleName, options, modes, text, nodes, cursor, pass, calls,
                   reports, applied, jsxElementParents>>

\* a side evaluation, labelled with the node it was made for
CallOf(c, fn) ==
    [fn |-> fn, kind |-> c.kind, side |-> c.side, left |-> c.left, right |-> c.right]

\* the reports of one side evaluation, labelled with the node and the side
Labelled(reps, fn, side) ==
    IF reps = <<>> THEN <<>>
    ELSE <<[fn |-> fn, side |-> side, node |-> reps[1].node,
            messageId |-> reps[1].messageId, fix |-> reps[1].fix]>>

RECURSIVE LabelledCalls(_, _)
LabelledCalls(cs, fn) ==
    IF cs = <<>> THEN <<>>
    ELSE <<CallOf(Head(cs), fn)>> \o LabelledCalls(Tail(cs), fn)

RECURSIVE StarReports(_, _)
StarReports(cs, fn) ==
    IF cs = <<>> THEN <<>>
    ELSE Labelled(checkSpacing(Head(cs).kind, Head(cs).side, Head(cs).left, Head(cs).right),
                  fn, Head(cs).side)
         \o StarReports(Tail(cs), fn)

\* the listeners FunctionDeclaration and FunctionExpression: checkFunction
VisitFunction ==
    /\ pc = "created"
    /\ ruleName = StarRule
    /\ cursor <= Len(nodes)
    /\ LET cs == checkFunction(Tokens(text), nodes[cursor])
       IN /\ calls' = calls \o LabelledCalls(cs, cursor)
          /\ reports' = reports \o StarReports(cs, cursor)
    /\ cursor' = cursor + 1
    /\ UNCHANGED <<parensVars, ruleName, options, pc, modes, rule, text, nodes, pass, applied,
                   jsxElementParents>>

\* the listener ArrowFunctionExpression: spaces
VisitArrowFunction ==
    /\ pc = "created"
    /\ ruleName = ArrowRule
    /\ cursor <= Len(nodes)
    /\ LET toks == Tokens(text)
           tokens == getTokens(toks, nodes[cursor])
       IN /\ calls' = calls \o LabelledCalls(spaces(toks, nodes[cursor]), cursor)
          /\ reports' = reports \o Labelled(spacesBefore(tokens), cursor, "before")
                                \o Labelled(spacesAfter(tokens), cursor, "after")
    /\ cursor' = cursor + 1
    /\ UNCHANGED <<parensVars, ruleName, options, pc, modes, rule, text, nodes, pass, applied,
                   jsxElementParents>>

\* create(context) of jsx-newline
CreateJsxNewline ==
    /\ pc = "new"
    /\ ruleName = JsxRule
    /\ jsxElementParents' = <<>>
    /\ pc' = "created"
    /\ UNCHANGED <<parensVars, ruleName, options, modes, rule, text, nodes, cursor, pass,
                   calls, reports, applied>>

\* the listener
\* ':matches(JSXElement, JSXFragment) > :matches(JSXElement, JSXExpressionContainer)'
VisitJsxChild ==
    /\ pc = "created"
    /\ ruleName = JsxRule
    /\ cursor <= Len(nodes)
    /\ jsxElementParents' =
          IF \E k \in 1 .. Len(jsxElementParents) :
                 jsxElementParents[k] = nodes[cursor].parent
          THEN jsxElementParents
          ELSE Append(jsxElementParents, nodes[cursor].parent)
    /\ cursor' = cursor + 1
    /\ UNCHANGED <<parensVars, ruleName, options, pc, modes, rule, text, nodes, pass, calls,
                   reports, applied>>

\* parent.children.forEach(...) from the child at index on; po is the
\* position of the parent in jsxElementParents
RECURSIVE ChildReports(_, _, _, _, _)
ChildReports(txt, opts, elements, index, po) ==
    IF index > Len(elements) THEN <<>>
    ELSE Labelled(CheckChild(txt, opts, elements, index), <<po, index>>, "sibling")
         \o ChildReports(txt, opts, elements, index + 1, po)

\* jsxElementParents.forEach(...) from the parent at position po on
RECURSIVE ParentReports(_, _, _, _)
ParentReports(txt, opts, parents, po) ==
    IF po > Len(parents) THEN <<>>
    ELSE ChildReports(txt, opts, ChildrenOf(JsxNodes(txt), parents[po]), 1, po)
         \o ParentReports(txt, opts, parents, po + 1)

\* the listener 'Program:exit'
ProgramExit ==
    /\ pc = "created"
    /\ ruleName = JsxRule
    /\ cursor > Len(nodes)
    /\ reports' = reports \o ParentReports(text, options, jsxElementParents, 1)
    /\ pc' = "exited"
    /\ UNCHANGED <<parensVars, ruleName, options, modes, rule, text, nodes, cursor, pass,
                   calls, applied, jsxElementParents>>

\* create(context) of no-extra-parens
CreateNoExtraParens ==
    /\ pc = "new"
    /\ ruleName = ParensRule
    /\ listeners' = createListeners(rules)
    /\ pc' = "created"
    /\ UNCHANGED <<lintVars_but_pc, rules, hostCalls, crashed>>

\* the traversal hands a node to the listeners whose selectors match it; a
\* listener that calls a callback the host does not have throws
VisitNode ==
    /\ pc = "created"
    /\ ruleName = ParensRule
    /\ ~crashed
    /\ cursor <= Len(nodes)
    /\ LET cs == ListenerCalls(listeners, MatchingKeys(nodes[cursor]), nodes[cursor])
       IN /\ hostCalls' = hostCalls \o CallsBeforeCrash(rules, cs)
          /\ crashed' = \E i \in 1 .. Len(cs) : cs[i].key \notin rules
    /\ cursor' = cursor + 1
    /\ UNCHANGED <<ruleName, options, pc, modes, rule, text, nodes, pass, calls,
                   reports, applied, jsxElementParents, rules, listeners>>

\* the traversal has handed every node to the rule
PassDone ==
    IF ruleName = JsxRule THEN pc = "exited"
    ELSE pc = "created" /\ cursor > Len(nodes)

\* two fixes the host applies together: neither starts before the other ends
Disjoint(f, g) == f.range[2] < g.range[1] \/ g.range[2] < f.range[1]

\* the text with the fixes of a set applied, the rightmost first
RECURSIVE ApplyFixSet(_, _)
ApplyFixSet(txt, fixes) ==
    IF fixes = {} THEN txt
    ELSE LET last == CHOOSE f \in fixes : \A g \in fixes : g.range[1] <= f.range[1]
         IN ApplyFixSet(ApplyFix(txt, last), fixes \ {last})

\* the nodes the traversal of the fixed text hands to the rule: the fixes of
\* the spacing rules leave the tokens and the tree as they are
Reparse(txt) ==
    IF ruleName = JsxRule THEN SelectorMatches(JsxNodes(txt)) ELSE nodes

\* the host applies some of the fixes of the first pass and lints the
\* result with a new instance of the rule
ApplyFixes ==
    /\ PassDone
    /\ pass = 1
    /\ \E S \in (SUBSET (1 .. Len(reports))) \ {{}} :
          LET fixes == {reports[i].fix : i \in S}
          IN /\ \A i, j \in S : i # j => Disjoint(reports[i].fix, reports[j].fix)
             /\ text' = ApplyFixSet(text, fixes)
             /\ nodes' = Reparse(ApplyFixSet(text, fixes))
             /\ applied' = {[fn |-> reports[i].fn, side |-> reports[i].side,
                             messageId |-> reports[i].messageId,
                             fix |-> reports[i].fix] : i \in S}
    /\ pass' = 2
    /\ pc' = "created"
    /\ cursor' = 1
    /\ calls' = <<>>
    /\ reports' = <<>>
    /\ jsxElementParents' = <<>>
    /\ UNCHANGED <<parensVars, ruleName, options, modes, rule>>

(***************************************************************************)
(* Lint runs: one construct per program, every gap up to MaxGap; a JSX     *)
(* parent with two children and every text up to MaxTextLen between them.  *)
(***************************************************************************)
JsxAlphabet == {"\n", " ", "x"}

JsxTexts(n) == UNION {[1 .. k -> JsxAlphabet] : k \in 1 .. n}

\* <a/>, an element over two lines, {x}, and the block comment {/* */}
JsxLeaves ==
    {<<"<", ">">>, <<"<", "\n", ">">>, <<"{", "x", "}">>, <<"{", "/*", "}">>}

\* the configurations the schema of jsx-newline admits
JsxOptions ==
    {Undefined, Obj(EmptyObject), Obj([prevent |-> FALSE]), Obj([prevent |-> TRUE]),
     Obj([prevent |-> TRUE, allowMultilines |-> FALSE]),
     Obj([prevent |-> TRUE, allowMultilines |-> TRUE])}

\* the nodes no-extra-parens is run on
OperandTypes == {"Identifier", "TSAsExpression", "TSTypeAssertion"}

Operands == {Operand(t) : t \in OperandTypes}

MaybeOperands == {Null} \cup Operands

\* a call or constructor invocation: its source, the number of the last
\* token of the callee, the number of the first token of the first
\* argument, the number of arguments, and whether the callee is a type
\* assertion ("n" a name, "a" the keyword as; the parentheses around a
\* callee are not part of the callee)
CallShape(source, calleeLast, argumentFirst, argc, asserted) ==
    [source |-> source, calleeLast |-> calleeLast, argumentFirst |-> argumentFirst,
     argc |-> argc, asserted |-> asserted]

CallShapes ==
    { CallShape(<<"n", "(", ")">>, 1, 0, 0, FALSE),                    \* n()
      CallShape(<<"n", "(", "n", ")">>, 1, 3, 1, FALSE),               \* n(n)
      CallShape(<<"n", "(", "n", ",", "n", ")">>, 1, 3, 2, FALSE),     \* n(n,n)
      CallShape(<<"n", "<", "n", ">", "(", "n", ")">>, 1, 6, 1, FALSE),
                                                                       \* n<n>(n)
      CallShape(<<"n", "<", "(", "n", ")", ">", "(", "n", ")">>, 1, 8, 1, FALSE),
                                                                       \* n<(n)>(n)
      CallShape(<<"n", "(", "(", "n", ")", ")">>, 1, 4, 1, FALSE),     \* n((n))
      CallShape(<<"(", "n", "a", "n", ")", "(", ")">>, 4, 0, 0, TRUE), \* (n as n)()
      CallShape(<<"(", "n", "a", "n", ")", "(", "n", ")">>, 4, 7, 1, TRUE),
                                                                       \* (n as n)(n)
      CallShape(<<"(", "n", "a", "n", ")", "<", "(", "n", ")", ">", "(", "n", ")">>,
                4, 12, 1, TRUE) }                                      \* (n as n)<(n)>(n)

ParensNodes ==
    {[type |-> "ArrowFunctionExpression", body |-> b] : b \in Operands}
    \cup {[type |-> t, argument |-> a] :
            t \in {"AwaitExpression", "SpreadElement", "UnaryExpression",
                   "UpdateExpression"},
            a \in Operands}
    \cup {[type |-> t, argument |-> a] :
            t \in {"ThrowStatement", "YieldExpression"}, a \in MaybeOperands}
    \cup {[type |-> t, left |-> l, right |-> r] :
            t \in {"BinaryExpression", "LogicalExpression"},
            l \in Operands, r \in Operands}
    \cup UNION {{[type |-> t, callee |-> c, arguments |-> [i \in 1 .. sh.argc |-> a],
                   source |-> sh.source, calleeLast |-> sh.calleeLast,
                   argumentFirst |-> sh.argumentFirst] :
                     t \in {"CallExpression", "NewExpression"},
                     c \in {o \in Operands : isTypeAssertion(o) = sh.asserted},
                     a \in Operands} : sh \in CallShapes}
    \cup {[type |-> t, superClass |-> c] :
            t \in {"ClassDeclaration", "ClassExpression"}, c \in MaybeOperands}
    \cup {[type |-> "ConditionalExpression", test |-> a, consequent |-> b,
           alternate |-> c] : a \in Operands, b \in Operands, c \in Operands}
    \cup {[type |-> "ForStatement", init |-> a, test |-> b, update |-> c] :
            a \in MaybeOperands, b \in MaybeOperands, c \in MaybeOperands}
    \cup {[type |-> t, initOf |-> "ForStatement"] : t \in OperandTypes}
    \cup {[type |-> t, right |-> r] :
            t \in {"ForInStatement", "ForOfStatement"}, r \in Operands}
    \cup {[type |-> "MemberExpression", object |-> o] : o \in Operands}
    \cup {[type |-> "SwitchCase", test |-> a] : a \in MaybeOperands}
    \cup {[type |-> "ArrayExpression"]}

\* the listener map of a host with a callback for ForInStatement and one
\* for ForOfStatement, and of an older host with one for both
ModernHost ==
    OverrideLiteralKeys \cup {"ForInStatement", "ForOfStatement", "ArrayExpression"}

OlderHost == OverrideLiteralKeys \cup {CombinedForKey, "ArrayExpression"}

\* these, and each of them with one callback less
HostMaps ==
    {ModernHost, OlderHost}
    \cup {ModernHost \ {k} : k \in ModernHost}
    \cup {OlderHost \ {k} : k \in OlderHost}

\* a linter instance of no-extra-parens over a host map, for one node
FreshParens(hostKeys, node) ==
    /\ ruleName = ParensRule
    /\ options = Undefined
    /\ pc = "new"
    /\ modes = Undefined
    /\ rule = Undefined
    /\ text = <<>>
    /\ nodes = <<node>>
    /\ cursor = 1
    /\ pass = 1
    /\ calls = <<>>
    /\ reports = <<>>
    /\ applied = {}
    /\ jsxElementParents = <<>>
    /\ rules = hostKeys
    /\ listeners = EmptyObject
    /\ hostCalls = <<>>
    /\ crashed = FALSE

Init ==
    \/ \E opts \in GeneratorRunOptions, it \in Constructs(GeneratorShapes) :
           FreshProgram(StarRule, opts, <<it>>)
    \/ \E opts \in ArrowOptions, it \in Constructs(ArrowShapes) :
           FreshProgram(ArrowRule, opts, <<it>>)
    \/ \E opts \in JsxOptions, e1 \in JsxLeaves, e2 \in JsxLeaves,
          t \in JsxTexts(MaxTextLen) :
           FreshJsx(opts, <<"[">> \o e1 \o t \o e2 \o <<"]">>)
    \/ \E hostKeys \in HostMaps, node \in ParensNodes :
           FreshParens(hostKeys, node)

Next ==
    \/ CreateGeneratorStarSpacing
    \/ CreateArrowSpacing
    \/ CreateJsxNewline
    \/ CreateNoExtraParens
    \/ VisitFunction
    \/ VisitArrowFunction
    \/ VisitJsxChild
    \/ VisitNode
    \/ ProgramExit
    \/ ApplyFixes

Spec == Init /\ [][Next]_vars

(***************************************************************************)
(* One lint pass over programs with several delimiters and over JSX trees  *)
(* with several pairs of siblings.                                         *)
(***************************************************************************)
\* a generator declaration, a static generator method and a generator
\* method whose star leads the member
PassShapes ==
    {sh \in GeneratorShapes :
        /\ sh.delim = <<"*">> /\ sh.post = <<"n", "(">>
        /\ sh.parentType \in {"Program", "MethodDefinition"}}

PassLeaves == {<<"<", ">">>, <<"{", "x", "}">>}

\* texts with no newline, one newline, a blank line, two separate newlines
SeparatorTexts ==
    {<<" ">>, <<"\n">>, <<"\n", "\n">>, <<"\n", "x", "\n">>}

InitPass ==
    \/ \E opts \in {Undefined} \cup {Str(sh) : sh \in Shorthands},
          a \in Constructs(PassShapes), b \in Constructs(PassShapes) :
           FreshProgram(StarRule, opts, <<a, b>>)
    \/ \E opts \in ArrowOptions,
          a \in Constructs(ArrowShapes), b \in Constructs(ArrowShapes) :
           FreshProgram(ArrowRule, opts, <<a, b>>)
    \/ \E opts \in JsxOptions, e1 \in PassLeaves, e2 \in PassLeaves, e3 \in PassLeaves,
          t1 \in SeparatorTexts, t2 \in SeparatorTexts :
           FreshJsx(opts, <<"[">> \o e1 \o t1 \o e2 \o t2 \o e3 \o <<"]">>)
    \/ \E opts \in JsxOptions, e \in PassLeaves,
          t1 \in SeparatorTexts, t2 \in SeparatorTexts, t3 \in SeparatorTexts :
           FreshJsx(opts, <<"[">> \o e \o t1 \o <<"[">> \o e \o t2 \o e \o <<"]">>
                          \o t3 \o e \o <<"]">>)

NextPass ==
    \/ CreateGeneratorStarSpacing
    \/ CreateArrowSpacing
    \/ CreateJsxNewline
    \/ VisitFunction
    \/ VisitArrowFunction
    \/ VisitJsxChild
    \/ ProgramExit

SpecPass == InitPass /\ [][NextPass]_vars

(***************************************************************************)
(* Policy resolution alone, over every configuration the schemas admit.    *)
(***************************************************************************)
InitPolicy ==
    \/ \E s \in Shorthands :
           FreshProgram(StarRule, Str(s), <<>>)
    \/ FreshProgram(StarRule, Undefined, <<>>)
    \/ \E so \in SideObjects, n \in MaybeOverrides, a \in MaybeOverrides,
          m \in MaybeOverrides :
           FreshProgram(StarRule, ObjectOption(so, n, a, m), <<>>)
    \/ \E opts \in ArrowOptions :
           FreshProgram(ArrowRule, opts, <<>>)

NextPolicy ==
    \/ CreateGeneratorStarSpacing
    \/ CreateArrowSpacing

SpecPolicy == InitPolicy /\ [][NextPolicy]_vars

(***************************************************************************)
(* Properties of the spacing rules.                                        *)
(***************************************************************************)
\* the blanks (or anything else that is no token) between two tokens
GapOf(c) == c.right.range[1] - c.left.range[2]

\* the policy in force for a side evaluation
PolicyOf(c) ==
    IF ruleName = StarRule THEN modes[c.kind][c.side] ELSE rule[c.side]

ReportsFor(fn, side) ==
    {j \in 1 .. Len(reports) : reports[j].fn = fn /\ reports[j].side = side}

CallsFor(fn, side) ==
    {i \in 1 .. Len(calls) : calls[i].fn = fn /\ calls[i].side = side}

SpacingRule == ruleName \in {StarRule, ArrowRule}

\* C1: in generator-star-spacing and arrow-spacing every evaluated side is
\* reported exactly when "the gap is positive" differs from the policy of
\* that side, and nothing is reported for it when they agree; no report is
\* made for a side that was not evaluated.
C1_ReportIffGapDiffersFromPolicy ==
    (SpacingRule /\ pc = "created") =>
        /\ \A i \in 1 .. Len(calls) :
              Cardinality(ReportsFor(calls[i].fn, calls[i].side))
                  = IF (GapOf(calls[i]) > 0) # PolicyOf(calls[i]) THEN 1 ELSE 0
        /\ \A j \in 1 .. Len(reports) :
              CallsFor(reports[j].fn, reports[j].side) # {}

\* a pass in which one side was reported and the other side was not
C1_Witness ==
    /\ SpacingRule /\ PassDone /\ Len(calls) = 2 /\ Len(reports) = 1
    /\ GapOf(calls[1]) = 0 /\ ~PolicyOf(calls[1])
    /\ GapOf(calls[2]) > 1 /\ ~PolicyOf(calls[2])

IsInsertion(messageId) ==
    messageId \in {"missingBefore", "missingAfter", "expectedBefore", "expectedAfter"}

\* C2: after the host has applied fixes of the first pass, the side each
\* applied fix belongs to measures a gap of exactly 1 when the fix was an
\* insertion and of 0 when it was a removal, and the second pass reports
\* nothing for that side.
C2_FixSatisfiesPolicy ==
    (SpacingRule /\ pass = 2 /\ PassDone) =>
        \A a \in applied :
            /\ ReportsFor(a.fn, a.side) = {}
            /\ CallsFor(a.fn, a.side) # {}
            /\ \A i \in CallsFor(a.fn, a.side) :
                  GapOf(calls[i]) = IF IsInsertion(a.messageId) THEN 1 ELSE 0

\* an insertion and a removal of more than one blank were applied together
C2_Witness ==
    /\ SpacingRule /\ pass = 2 /\ PassDone
    /\ \E a, b \in applied :
          /\ IsInsertion(a.messageId) /\ a.fix.text = <<" ">>
          /\ ~IsInsertion(b.messageId) /\ b.fix.range[2] - b.fix.range[1] > 1

\* the policy each bucket and side resolves to, as the documentation of the
\* options states it
ShorthandPolicy(s) ==
    [before |-> s \in {"before", "both"}, after |-> s \in {"after", "both"}]

GlobalPolicy(opt) ==
    IF opt.t = "string" THEN ShorthandPolicy(opt.s)
    ELSE IF opt.t = "undefined" THEN [before |-> TRUE, after |-> FALSE]
    ELSE [before |-> IF "before" \in DOMAIN opt.o THEN opt.o.before ELSE TRUE,
          after  |-> IF "after" \in DOMAIN opt.o THEN opt.o.after ELSE FALSE]

BucketPolicy(opt, b) ==
    LET ov == Prop(opt, b)
        g == GlobalPolicy(opt)
    IN IF ov.t = "undefined" THEN g
       ELSE IF ov.t = "string" THEN ShorthandPolicy(ov.s)
       ELSE [before |-> IF "before" \in DOMAIN ov.o THEN ov.o.before ELSE g.before,
             after  |-> IF "after" \in DOMAIN ov.o THEN ov.o.after ELSE g.after]

\* C4: for every valid configuration each bucket resolves, side by side, to
\* its own override (a shorthand mapped before->{T,F}, after->{F,T},
\* both->{T,T}, neither->{F,F}, or an object laid over the global default)
\* or, without one, to the global default, which is {before:true,
\* after:false} replaced by the shorthand or overridden by the top-level
\* before/after; so {before:true, after:false} resolves as "before" and
\* {before:false, after:false} as "neither".
C4_PolicyResolution ==
    (ruleName = StarRule /\ pc = "created") =>
        /\ \A b \in Buckets : \A s \in Sides :
              modes[b][s] = BucketPolicy(options, b)[s]
        /\ \A b \in Buckets : \A s \in Sides :
              /\ options = Obj([before |-> TRUE, after |-> FALSE])
                    => modes[b][s] = modesOf(Str("before"))[b][s]
              /\ options = Obj([before |-> FALSE, after |-> FALSE])
                    => modes[b][s] = modesOf(Str("neither"))[b][s]

\* a top-level object, one bucket laid over it, one bucket with a shorthand
C4_Witness ==
    /\ ruleName = StarRule /\ pc = "created"
    /\ options = ObjectOption([before |-> FALSE], Obj([after |-> TRUE]),
                              Undefined, Str("both"))
    /\ modes.named.before = FALSE /\ modes.named.after = TRUE
    /\ modes.anonymous.before = FALSE /\ modes.anonymous.after = FALSE
    /\ modes.method.before = TRUE /\ modes.method.after = TRUE

\* the function nodes the traversal has handed to generator-star-spacing
VisitedFunctions ==
    IF ruleName = StarRule /\ pc = "created" THEN 1 .. (cursor - 1) ELSE {}

\* the parent is a class member definition or a property with the method flag
IsMethodParent(node) ==
    \/ node.parent.type = "MethodDefinition"
    \/ (node.parent.type = "Property" /\ node.parent.method)

\* the first token of the member that owns the node is the star
StarLeadsMember(node) == Tokens(text)[node.parent.first].value = "*"

\* C5: checkFunction evaluates the before side of a generator exactly when it
\* is not the case that the bucket is method and the star is the first token
\* of the owning member; in that case no before-side violation is reported
\* under any policy; the after side of every generator is evaluated; a
\* function that is no generator is not evaluated and not reported.
C5_BeforeSideSkippedForLeadingStar ==
    \A fn \in VisitedFunctions :
        LET node == nodes[fn]
            leading == IsMethodParent(node) /\ StarLeadsMember(node)
        IN IF node.generator
           THEN /\ (CallsFor(fn, "before") # {}) <=> ~leading
                /\ leading => ReportsFor(fn, "before") = {}
                /\ Cardinality(CallsFor(fn, "after")) = 1
           ELSE /\ CallsFor(fn, "before") = {} /\ CallsFor(fn, "after") = {}
                /\ ReportsFor(fn, "before") = {} /\ ReportsFor(fn, "after") = {}

\* a method whose star leads the member, under a policy that wants a blank
\* before the star, with none there: the after side is reported, the before
\* side is not
C5_Witness ==
    /\ VisitedFunctions = {1}
    /\ nodes[1].generator /\ IsMethodParent(nodes[1]) /\ StarLeadsMember(nodes[1])
    /\ modes.method.before /\ modes.method.after
    /\ Tokens(text)[nodes[1].parent.first].range[1]
          = Tokens(text)[nodes[1].parent.first - 1].range[2]
    /\ CallsFor(1, "before") = {}
    /\ ReportsFor(1, "before") = {}
    /\ ReportsFor(1, "after") # {}

\* the bucket of a function node, as the documentation of the rule states it
BucketOf(node) ==
    IF IsMethodParent(node) THEN "method"
    ELSE IF ~node.id THEN "anonymous"
    ELSE "named"

\* C6: every generator function is classified into exactly one bucket:
\* method when its parent is a class member definition (MethodDefinition)
\* or a property with the method flag, else anonymous when it has no
\* identifier, else named; and both sides of its star are judged by the
\* policy resolved for that bucket.
C6_BucketClassification ==
    \A i \in 1 .. Len(calls) :
        ruleName = StarRule =>
            LET want == BucketOf(nodes[calls[i].fn])
            IN /\ calls[i].kind = want
               /\ (ReportsFor(calls[i].fn, calls[i].side) # {})
                     <=> ((GapOf(calls[i]) > 0) # modes[want][calls[i].side])

\* a method judged by a method policy that differs from the policy of the
\* other buckets
C6_Witness ==
    /\ ruleName = StarRule /\ PassDone /\ Len(calls) = 2
    /\ calls[1].kind = "method" /\ ~nodes[1].id
    /\ modes.method.before # modes.anonymous.before
    /\ modes.method.after # modes.named.after
    /\ Len(reports) = 2

\* the delimiter and its neighbour on the side of a report
DelimiterOf(r) ==
    LET c == calls[CHOOSE i \in CallsFor(r.fn, r.side) : TRUE]
    IN IF r.side = "before" THEN c.right ELSE c.left

NeighbourOf(r) ==
    LET c == calls[CHOOSE i \in CallsFor(r.fn, r.side) : TRUE]
    IN IF r.side = "before" THEN c.left ELSE c.right

InsertsAfterDelimiter(r) ==
    r.fix.text = <<" ">> /\ r.fix.range[1] = DelimiterOf(r).range[2]

\* C7 as stated: the report is located at the delimiter when its fix inserts
\* a blank after the delimiter and at the neighbour token in every other
\* case.
C7_LocationDelimiterOnlyWhenInsertingAfter ==
    SpacingRule =>
        \A j \in 1 .. Len(reports) :
            reports[j].node = IF InsertsAfterDelimiter(reports[j])
                              THEN DelimiterOf(reports[j])
                              ELSE NeighbourOf(reports[j])

\* C7 amended: generator-star-spacing locates every report at the star,
\* arrow-spacing locates every report at the neighbour token of the side.
C7_LocationPerRule ==
    SpacingRule =>
        \A j \in 1 .. Len(reports) :
            reports[j].node = IF ruleName = StarRule
                              THEN DelimiterOf(reports[j])
                              ELSE NeighbourOf(reports[j])

\* both rules in the cases the statement gets wrong: the star reported for
\* its before side, or the arrow's right neighbour for a missing blank
C7_Witness ==
    /\ SpacingRule /\ Len(reports) = 2
    /\ \/ /\ ruleName = StarRule
          /\ reports[1].side = "before" /\ reports[1].node.value = "*"
          /\ reports[2].messageId = "unexpectedAfter" /\ reports[2].node.value = "*"
       \/ /\ ruleName = ArrowRule
          /\ reports[2].messageId = "expectedAfter" /\ reports[2].node.value # "=>"

\* the program is the one declaration function*n( with the given gaps
IsNamedDeclaration(gapBefore, gapAfter) ==
    /\ ruleName = StarRule
    /\ Len(nodes) = 1
    /\ nodes[1].type = "FunctionDeclaration" /\ nodes[1].generator /\ nodes[1].id
    /\ text = <<"f">> \o Spaces(gapBefore) \o <<"*">> \o Spaces(gapAfter)
              \o <<"n", "(", ";">>

\* C10 as stated: with no options, `function* foo() {}` (no blank before the
\* star, blanks after it) is not reported.
C10_StarAfterKeywordUnreported ==
    \A g \in 1 .. MaxGap :
        (options = Undefined /\ pass = 1 /\ PassDone /\ IsNamedDeclaration(0, g))
            => reports = <<>>

\* C10 amended: with no options, `function *foo() {}` (blanks before the
\* star, none after it) is not reported, and `function* foo() {}` is
\* reported twice: missingBefore and unexpectedAfter.
C10_DefaultPolicyOnDeclaration ==
    \A g \in 1 .. MaxGap :
        (options = Undefined /\ pass = 1 /\ PassDone) =>
            /\ IsNamedDeclaration(g, 0) => reports = <<>>
            /\ IsNamedDeclaration(0, g) =>
                  /\ Len(reports) = 2
                  /\ reports[1].messageId = "missingBefore"
                  /\ reports[2].messageId = "unexpectedAfter"

\* `function* foo() {}` linted with no options
C10_Witness ==
    /\ options = Undefined /\ pass = 1 /\ PassDone /\ IsNamedDeclaration(0, 1)
    /\ Len(reports) = 2

(***************************************************************************)
(* Properties of jsx-newline.                                              *)
(***************************************************************************)
\* C3 as stated: in every option mode and for every text between two JSX
\* children, once the fix of a report is applied to that text the second
\* run of Program:exit reports nothing for that pair of siblings.
C3_JsxFixSettlesSiblingPair ==
    (ruleName = JsxRule /\ pass = 2 /\ PassDone) =>
        \A a \in applied : ReportsFor(a.fn, a.side) = {}

(***************************************************************************)
(* Properties of no-extra-parens.                                          *)
(***************************************************************************)
\* the construct kinds no-extra-parens overrides
OverriddenKinds ==
    OverrideLiteralKeys \cup {"ForInStatement", "ForOfStatement", CombinedForKey}

\* C8 as stated: for every construct kind the rule overrides, a host map
\* without a callback for the kind yields a listener map without an override
\* for it, and no visit of a node calls a callback the host does not have.
C8_AbsentDelegateOmitsOverride ==
    (ruleName = ParensRule /\ pc = "created") =>
        /\ \A k \in OverriddenKinds :
              k \notin rules => ~(k \in DOMAIN listeners /\ listeners[k] = "override")
        /\ ~crashed

TheNode == nodes[1]

StandIn == [type |-> "SequenceExpression"]

\* the run is one of no-extra-parens over a node of one of the types
ParensRunOn(types) == ruleName = ParensRule /\ TheNode.type \in types

PositionsOf(node) ==
    IF node.type = "ForStatement" THEN {"init", "test", "update"}
    ELSE {"test", "consequent", "alternate"}

\* C12 as stated: the node a ForStatement or ConditionalExpression override
\* hands to the host carries a type assertion in none of its three operand
\* positions, whichever of the operands of the node are type assertions.
C12_EveryAssertionHidden ==
    ParensRunOn({"ForStatement", "ConditionalExpression"}) =>
        \A c \in 1 .. Len(hostCalls) :
            \A p \in PositionsOf(TheNode) : ~isTypeAssertion(hostCalls[c].arg[p])

\* the host has a callback for ForInStatement and one for ForOfStatement
SeparateForCallbacks == "ForInStatement" \in rules /\ "ForOfStatement" \in rules

\* the calls made to the host callback registered under key
HostCallsUnder(key) == SelectSeq(hostCalls, LAMBDA c : c.key = key)

\* C13 as stated: of a for-in or for-of loop whose target is a type
\* assertion, a host with the two separate callbacks is called with the
\* target replaced by a SequenceExpression, and a host without them is not
\* called at all; a loop whose target is no type assertion is handed to the
\* host as it is.  Runs in which a callback was missing are left aside.
C13_SubstitutedWhenSeparateElseSkipped ==
    (ParensRunOn({"ForInStatement", "ForOfStatement"}) /\ PassDone /\ ~crashed) =>
        IF ~isTypeAssertion(TheNode.right)
            THEN Len(hostCalls) = 1 /\ hostCalls[1].arg = TheNode
        ELSE IF SeparateForCallbacks
            THEN /\ Len(hostCalls) = 1
                 /\ hostCalls[1].key = TheNode.type
                 /\ hostCalls[1].arg.right = StandIn
        ELSE hostCalls = <<>>

\* C13 amended: on a host with the two separate callbacks, a for-of loop
\* whose target is a type assertion is handed to the ForOfStatement
\* callback with the target replaced by a SequenceExpression, and a for-in
\* loop whose target is a type assertion is not handed to the host at all.
\* On a host without one of them the override sits on the combined selector
\* and hands either loop whose target is a type assertion to the combined
\* callback, as a ForOfStatement with the target replaced by a
\* SequenceExpression; when the host has no combined callback that call
\* fails.  In both modes a loop whose target is no type assertion is handed
\* to the same callback as it is.
C13_ForTargetByCapability ==
    (ParensRunOn({"ForInStatement", "ForOfStatement"}) /\ PassDone) =>
        LET hidden == isTypeAssertion(TheNode.right)
        IN IF SeparateForCallbacks
           THEN /\ ~crashed
                /\ hostCalls =
                     IF hidden /\ TheNode.type = "ForInStatement" THEN <<>>
                     ELSE IF hidden
                         THEN <<[key |-> "ForOfStatement",
                                 arg |-> [type |-> "ForOfStatement", right |-> StandIn]]>>
                     ELSE <<[key |-> TheNode.type, arg |-> TheNode]>>
           ELSE IF CombinedForKey \in rules
           THEN /\ ~crashed
                /\ HostCallsUnder(CombinedForKey) =
                     IF hidden
                         THEN <<[key |-> CombinedForKey,
                                 arg |-> [type |-> "ForOfStatement", right |-> StandIn]]>>
                     ELSE <<[key |-> CombinedForKey, arg |-> TheNode]>>
           ELSE crashed /\ HostCallsUnder(CombinedForKey) = <<>>

\* a for-in loop over a type assertion on a host with the combined callback
\* alone: the host is called, with a for-of loop over a SequenceExpression
C13_Witness ==
    /\ ParensRunOn({"ForInStatement"}) /\ PassDone
    /\ ~SeparateForCallbacks /\ CombinedForKey \in rules
    /\ isTypeAssertion(TheNode.right)
    /\ Len(hostCalls) = 1
    /\ hostCalls[1].arg.type = "ForOfStatement"
    /\ hostCalls[1].arg.right = StandIn

\* the opening parenthesis after the callee and the one before the first
\* argument of a call with arguments, as token numbers of its source
ParenAfterCallee == OpeningParenAfter(Tokens(TheNode.source), TheNode.calleeLast)

ParenBeforeArgument ==
    OpeningParenBefore(Tokens(TheNode.source), TheNode.argumentFirst)

\* C14 as stated: a CallExpression or NewExpression with one argument whose
\* opening parenthesis after the callee is another token than the one
\* before the argument is handed to the host CallExpression callback with
\* the argument replaced by a SequenceExpression, whatever the callee is.
C14_SoleArgumentSubstituted ==
    (/\ ParensRunOn({"CallExpression", "NewExpression"}) /\ PassDone
     /\ "CallExpression" \in rules
     /\ Len(TheNode.arguments) = 1
     /\ ParenAfterCallee # ParenBeforeArgument) =>
        /\ Len(hostCalls) = 1
        /\ hostCalls[1].key = "CallExpression"
        /\ hostCalls[1].arg.arguments = <<StandIn>>

====
